---- MODULE Spec2Model ----
(***************************************************************************)
(* State-machine model of the aplusplanner backend: the User and           *)
(* Assignment tables, the session credentials issued by login, the         *)
(* payment gateway's view of a transaction, and the HTTP handlers of the   *)
(* auth, admin, assignment and payment routers.                            *)
(*                                                                         *)
(* Spec     runs every request to completion before the next one starts.   *)
(* SpecConc runs two requests side by side, one database call at a time.   *)
(***************************************************************************)
EXTENDS Integers, FiniteSets, Sequences, TLC

VARIABLES
    users,        \* the User table: id -> row (state "absent", "active" or "deleted")
    tokens,       \* ids whose login issued a credential that is still valid
    assignments,  \* the Assignment table: a function from the ids created to rows
    gateway,      \* the payment gateway: assignment id -> state of its transaction
    last,         \* the request handled last and the response it got
    procs         \* SpecConc: the requests in flight, one per process

vars == <<users, tokens, assignments, gateway, last, procs>>

----------------------------------------------------------------------------
(* Values *)

NULL == "null"
UNDEFINED == "undefined"
\* a nullable number: <<>> is null, <<n>> is n
None == <<>>
Some(n) == <<n>>

Students == {"s1", "s2"}
Tutors == {"t1", "t2"}
UserIds == Students \cup Tutors
ADMIN == "admin"
AssignmentIds == {"a1"}
Procs == {"p1", "p2"}

\* the callers that submit: one student and one tutor; s2 and t2 stand for
\* the student and the tutor an assignment does not belong to
Submitters == {"s1", "t1", ADMIN}

\* request bodies
PriceInputs == {0, 50, 70}

\* Number(price) of a body whose price is not numeric, and of one whose price
\* is "Infinity" or 1e999
NaN == -999
Infinity == 999

\* Number(price) of the bodies sent to review-and-price with a malformed price
BodyPrices == {NaN, -5, 0, 50, Infinity}

\* the prices of the requests that run side by side
ConcPriceInputs == {0, 50}

FileUrlInputs == {"Y", "Z"}

Role(u) == IF u \in Tutors THEN "TUTOR" ELSE "STUDENT"

\* register*: the row prisma.user.create stores
StudentRow == [state |-> "active", role |-> "STUDENT", isApproved |-> TRUE]
TutorRow == [state |-> "active", role |-> "TUTOR", isApproved |-> FALSE]
\* an id no row was created under, and what is left of a deleted row
NoUser == [state |-> "absent", role |-> NULL, isApproved |-> FALSE]
Deleted == [state |-> "deleted", role |-> NULL, isApproved |-> FALSE]

NewAssignment_Paid(studentId) ==
    [studentId |-> studentId, fileUrl |-> "X", status |-> "Pending",
     assignedTutorId |-> NULL, tutorCharge |-> None, isPaid |-> TRUE,
     completedFileUrl |-> NULL, completedAt |-> NULL]

\* submitAssignment: the row prisma.assignment.create stores; the columns it
\* does not name take the schema's defaults
NewAssignment(studentId) ==
    [studentId |-> studentId, fileUrl |-> "X", status |-> "Pending",
     assignedTutorId |-> NULL, tutorCharge |-> None, isPaid |-> FALSE,
     completedFileUrl |-> NULL, completedAt |-> NULL]

Exists(u) == u \in UserIds /\ users[u].state = "active"
Created == DOMAIN assignments

----------------------------------------------------------------------------
(* The authorization gate *)

\* the role and id claims of the credential a caller presents; the admin's
\* credential carries no id
CallerRole(c) == IF c = ADMIN THEN "ADMIN" ELSE Role(c)
CallerId(c) == IF c = ADMIN THEN UNDEFINED ELSE c

\* authMiddleware: the cookie verifies
Authenticated(c) == c = ADMIN \/ c \in tokens

\* roleMiddleware(roles)
RoleAllowed(c, roles) == CallerRole(c) \in roles

Callers == UserIds \cup {ADMIN}

\* the roles each route's roleMiddleware lets through; a route with
\* authMiddleware alone lets every role through
AllRoles == {"ADMIN", "TUTOR", "STUDENT"}
RouteRoles ==
    [approveTutor |-> {"ADMIN"}, deleteTutor |-> {"ADMIN"},
     submit |-> AllRoles, assign |-> {"ADMIN"},
     reviewAndSetPrice |-> {"TUTOR"}, complete |-> {"TUTOR"},
     reject |-> {"TUTOR"}, markPaid |-> {"ADMIN", "STUDENT"},
     download |-> AllRoles, downloadSolution |-> AllRoles,
     initializePayment |-> AllRoles, verifyPayment |-> AllRoles]
Routes == DOMAIN RouteRoles

\* the request reaches the route's handler
Admitted(c, route) == Authenticated(c) /\ RoleAllowed(c, RouteRoles[route])

\* what a request was and what it got: caller is whose credential it came
\* with (for a request roleMiddleware turned away, the credential's role),
\* arg the id or url it named, price the price it named, redirect the url
\* res.redirect was given, mail what became of the emails the handler sent,
\* list the ids of the rows it returned
Response(op, c, a, arg, price, code, redirect) ==
    [op |-> op, caller |-> c, aid |-> a, arg |-> arg, price |-> price,
     code |-> code, redirect |-> redirect, mail |-> "none", list |-> {}]

NoResponse == Response("none", NULL, NULL, NULL, None, 0, NULL)

\* what transporter.sendMail does with the emails of one request
MailOutcomes == {"sent", "failed"}

SendEmailThrows_OnFailure(outcome) == outcome = "failed"

SendEmailThrows_Always(outcome) == outcome \in MailOutcomes

\* sendEmail catches what transporter.sendMail throws and logs it
SendEmailThrows(outcome) == FALSE

\* a handler that awaits sendEmail between its update and its response, all
\* inside its try block: resp is the response it is heading for, and the
\* emails are sent only when that is a success
Notify(resp, outcome) ==
    IF resp.code \notin {200, 201} THEN resp
    ELSE [resp EXCEPT !.mail = outcome,
                      !.code = IF SendEmailThrows(outcome) THEN 500 ELSE @]

\* the responses the request can get, one for each thing that can become of
\* its emails
Notified(resp) == {Notify(resp, outcome) : outcome \in MailOutcomes}

\* the local variable of a handler that holds the row it read, before the read
NoRow == [NewAssignment(NULL) EXCEPT !.status = "none"]

\* a request in flight: where its handler stands (pc), the row its first
\* query returned (row) and, once pc = "done", the response's status
Request(pc, op, c, a, arg, price, row, code) ==
    [pc |-> pc, op |-> op, caller |-> c, aid |-> a, arg |-> arg, price |-> price,
     row |-> row, code |-> code]

Idle == Request("idle", "none", NULL, NULL, NULL, None, NoRow, 0)

----------------------------------------------------------------------------
\* the tutors the admin has approved before the first request
Approved == {"t2"}

\* the students and the approved tutors have registered and logged in; the
\* other tutors have not registered yet
Init ==
    /\ users = [u \in UserIds |->
                    IF u \in Students THEN StudentRow
                    ELSE IF u \in Approved THEN [TutorRow EXCEPT !.isApproved = TRUE]
                    ELSE NoUser]
    /\ tokens = Students \cup Approved
    /\ assignments = <<>>
    /\ gateway = [a \in AssignmentIds |-> "none"]
    /\ last = NoResponse
    /\ procs = [p \in Procs |-> Idle]

----------------------------------------------------------------------------
(* Auth and admin handlers *)

\* roleMiddleware answers 403 before the handler runs; it reads the
\* credential's role alone, so the request is told by its role and route
RoleDenied(role, route) ==
    /\ \E c \in Callers : Authenticated(c) /\ CallerRole(c) = role
    /\ role \notin RouteRoles[route]
    /\ last' = Response(route, role, NULL, NULL, None, 403, NULL)
    /\ UNCHANGED <<users, tokens, assignments, gateway, procs>>

\* the cookies that authMiddleware turns away: none at all, or one that
\* jwt.verify rejects (forged or expired)
BadCredentials == {"absent", "invalid"}

\* authMiddleware: no token, or jwt.verify throws into the catch
AuthCode(cred) == IF cred = "absent" THEN 401 ELSE 403

AuthDenied(cred, route) ==
    /\ last' = Response(route, cred, NULL, NULL, None, AuthCode(cred), NULL)
    /\ UNCHANGED <<users, tokens, assignments, gateway, procs>>

RegisterTutor(u) ==
    /\ u \in Tutors
    /\ users[u] = NoUser
    /\ users' = [users EXCEPT ![u] = TutorRow]
    /\ last' = Response("registerTutor", u, NULL, NULL, None, 201, NULL)
    /\ UNCHANGED <<tokens, assignments, gateway, procs>>

LoginCode_NoApproval(u) == IF ~Exists(u) THEN 400 ELSE 200

\* login: 400 for no such user, 403 for a tutor awaiting approval
LoginCode(u) ==
    IF ~Exists(u) THEN 400
    ELSE IF users[u].role = "TUTOR" /\ ~users[u].isApproved THEN 403
    ELSE 200

Login(u) ==
    /\ u \in UserIds
    /\ tokens' = IF LoginCode(u) = 200 THEN tokens \cup {u} ELSE tokens
    /\ last' = Response("login", u, NULL, NULL, None, LoginCode(u), NULL)
    /\ UNCHANGED <<users, assignments, gateway, procs>>

\* prisma.user.findUnique({ where: { id: tutorId, role: "TUTOR" } })
FindTutor(t) == IF Exists(t) /\ users[t].role = "TUTOR" THEN users[t] ELSE NoUser

ApproveTutorCode(c, t) ==
    IF FindTutor(t) = NoUser THEN 404
    ELSE IF FindTutor(t).isApproved THEN 400
    ELSE 200

ApproveTutor(c, t) ==
    /\ Admitted(c, "approveTutor")
    /\ users' = IF ApproveTutorCode(c, t) = 200
                THEN [users EXCEPT ![t].isApproved = TRUE] ELSE users
    /\ last' \in Notified(Response("approveTutor", c, NULL, t, None,
                               ApproveTutorCode(c, t), NULL))
    /\ UNCHANGED <<tokens, assignments, gateway, procs>>

\* Assignment_student_id_fkey is ON DELETE RESTRICT
OwnsAssignment(u) ==
    \E a \in Created : assignments[a].studentId = u

SetNullOnDelete_Keep(asgs, t) == asgs

SetNullOnDelete_Cascade(asgs, t) ==
    [a \in {b \in DOMAIN asgs : asgs[b].assignedTutorId # t} |-> asgs[a]]

\* Assignment_assigned_tutor_id_fkey is ON DELETE SET NULL
SetNullOnDelete(asgs, t) ==
    [a \in DOMAIN asgs |->
        IF asgs[a].assignedTutorId = t
        THEN [asgs[a] EXCEPT !.assignedTutorId = NULL]
        ELSE asgs[a]]

DeleteTutorCode(c, t) ==
    IF FindTutor(t) = NoUser THEN 404
    ELSE IF OwnsAssignment(t) THEN 500
    ELSE 200

DeleteTutor(c, t) ==
    /\ Admitted(c, "deleteTutor")
    /\ IF DeleteTutorCode(c, t) = 200
       THEN /\ users' = [users EXCEPT ![t] = Deleted]
            /\ assignments' = SetNullOnDelete(assignments, t)
       ELSE UNCHANGED <<users, assignments>>
    /\ last' \in Notified(Response("deleteTutor", c, NULL, t, None,
                               DeleteTutorCode(c, t), NULL))
    /\ UNCHANGED <<tokens, gateway, procs>>

----------------------------------------------------------------------------
(* Assignment handlers *)

\* prisma.assignment.update({ where: { id }, data }): the row with data's
\* columns replaced
UpdateRow(asgs, a, data) ==
    [asgs EXCEPT ![a] =
        [f \in DOMAIN asgs[a] |-> IF f \in DOMAIN data THEN data[f] ELSE asgs[a][f]]]

\* POST /assignments/submit: authMiddleware alone
SubmitCode(c, hasFile) ==
    IF CallerId(c) = UNDEFINED THEN 401
    ELSE IF ~hasFile THEN 400
    ELSE IF ~Exists(c) THEN 500      \* Assignment_student_id_fkey
    ELSE 201

SubmitAssignment(c, hasFile, a) ==
    /\ Admitted(c, "submit")
    /\ a \in AssignmentIds \ Created
    /\ assignments' = IF SubmitCode(c, hasFile) = 201
                      THEN assignments @@ (a :> NewAssignment(CallerId(c)))
                      ELSE assignments
    /\ last' \in Notified(Response("submit", c,
                               IF SubmitCode(c, hasFile) = 201 THEN a ELSE NULL,
                               IF hasFile THEN "X" ELSE NULL, None,
                               SubmitCode(c, hasFile), NULL))
    /\ UNCHANGED <<users, tokens, gateway, procs>>

FindApprovedTutor_AnyTutor(t) == FindTutor(t)

\* prisma.user.findFirst({ where: { id: tutorId, role: "TUTOR", isApproved: true } })
FindApprovedTutor(t) ==
    IF Exists(t) /\ users[t].role = "TUTOR" /\ users[t].isApproved
    THEN users[t] ELSE NoUser

AssignData_ResetPaid(t) ==
    [assignedTutorId |-> t, status |-> "Assigned", isPaid |-> FALSE]

\* the data of assignAssignmentToTutor's update
AssignData(t) == [assignedTutorId |-> t, status |-> "Assigned"]

AssignCode(c, a, t) ==
    IF a \notin Created THEN 404
    ELSE IF FindApprovedTutor(t) = NoUser THEN 404
    ELSE 200

AssignAssignmentToTutor(c, a, t) ==
    /\ Admitted(c, "assign")
    /\ assignments' = IF AssignCode(c, a, t) = 200
                      THEN UpdateRow(assignments, a, AssignData(t))
                      ELSE assignments
    /\ last' \in Notified(Response("assign", c, a, t, None, AssignCode(c, a, t), NULL))
    /\ UNCHANGED <<users, tokens, gateway, procs>>

\* a comparison with NaN is false
Leq(x, y) == x # NaN /\ y # NaN /\ x <= y

\* isNaN(price) || price <= 0
InvalidPrice(price) == price = NaN \/ Leq(price, 0)

\* prisma.assignment.findUnique({ where: { id: assignmentId, assignedTutorId: tutorId } })
FindAssignedTo(a, tutorId) ==
    a \in Created /\ assignments[a].assignedTutorId = tutorId

\* reviewAndSetPrice's test of the row it read
NotAssignable(row) == row.status # "Assigned"

PriceData(price) == [status |-> "In Progress", tutorCharge |-> Some(price)]

ReviewCode(c, a, price) ==
    IF InvalidPrice(price) THEN 400
    ELSE IF ~FindAssignedTo(a, CallerId(c)) THEN 404
    ELSE IF NotAssignable(assignments[a]) THEN 400
    ELSE 200

\* what the update does with tutorCharge: a finite price is stored; Infinity
\* is a value the Float column can hold, the client can send as null, or the
\* client can refuse
FloatWrites(price) ==
    IF price = Infinity THEN {"stored", "null", "throws"} ELSE {"stored"}

ReviewAndSetPrice(c, a, price) ==
    /\ Admitted(c, "reviewAndSetPrice")
    /\ \E write \in FloatWrites(price) :
        LET code == IF ReviewCode(c, a, price) = 200 /\ write = "throws"
                    THEN 500 ELSE ReviewCode(c, a, price)
            data == IF write = "null"
                    THEN [PriceData(price) EXCEPT !.tutorCharge = None]
                    ELSE PriceData(price)
        IN  /\ assignments' = IF code = 200
                              THEN UpdateRow(assignments, a, data)
                              ELSE assignments
            /\ last' \in Notified(Response("reviewAndSetPrice", c, a, NULL, Some(price),
                                           code, NULL))
    /\ UNCHANGED <<users, tokens, gateway, procs>>

CompleteData_NoFile(fileUrl) ==
    [status |-> "Completed", completedAt |-> "date"]

CompleteData_OverFile(fileUrl) ==
    [status |-> "Completed", fileUrl |-> fileUrl, completedAt |-> "date"]

CompleteData(fileUrl) ==
    [status |-> "Completed", completedFileUrl |-> fileUrl, completedAt |-> "date"]

\* completeAssignment updates first: an id with no row makes the update throw
CompleteCode(c, a) ==
    IF a \notin Created THEN 500
    ELSE 200

CompleteAssignment(c, a, fileUrl) ==
    /\ Admitted(c, "complete")
    /\ assignments' = IF CompleteCode(c, a) = 200
                      THEN UpdateRow(assignments, a, CompleteData(fileUrl))
                      ELSE assignments
    /\ last' \in Notified(Response("complete", c, a, fileUrl, None, CompleteCode(c, a), NULL))
    /\ UNCHANGED <<users, tokens, gateway, procs>>

\* the programSpecialty a tutor registered with and the one an assignment was
\* submitted with; no handler writes either afterwards
TutorSpecialty(u) == IF u = "t1" THEN "Econ" ELSE "Law"
AssignmentSpecialty(a) == "Econ"

\* req.user.programSpecialty: login signs { id, role, email } and
\* authMiddleware hands the decoded token on as req.user
TokenSpecialty(c) == UNDEFINED

PendingCode(c) ==
    IF CallerId(c) = UNDEFINED \/ TokenSpecialty(c) = UNDEFINED THEN 401
    ELSE 200

\* prisma.assignment.findMany({ where: { programSpecialty, status: "Assigned",
\* assignedTutorId: null } })
PendingList(c) ==
    {a \in Created : /\ AssignmentSpecialty(a) = TokenSpecialty(c)
                     /\ assignments[a].status = "Assigned"
                     /\ assignments[a].assignedTutorId = NULL}

\* GET /assignments/tutor-pending: roleMiddleware(["TUTOR"])
GetTutorPendingAssignments(c) ==
    /\ Authenticated(c) /\ RoleAllowed(c, {"TUTOR"})
    /\ last' = [Response("tutorPending", c, NULL, NULL, None, PendingCode(c), NULL)
                    EXCEPT !.list = IF PendingCode(c) = 200 THEN PendingList(c) ELSE {}]
    /\ UNCHANGED <<users, tokens, assignments, gateway, procs>>

\* rejectAssignment's test of the row it read
NotRejectable(row) == row.status # "Assigned"

RejectData == [status |-> "Rejected"]

RejectCode(c, a) ==
    IF a \notin Created THEN 404
    ELSE IF NotRejectable(assignments[a]) THEN 400
    ELSE 200

RejectAssignment(c, a) ==
    /\ Admitted(c, "reject")
    /\ assignments' = IF RejectCode(c, a) = 200
                      THEN UpdateRow(assignments, a, RejectData)
                      ELSE assignments
    /\ last' = Response("reject", c, a, NULL, None, RejectCode(c, a), NULL)
    /\ UNCHANGED <<users, tokens, gateway, procs>>

\* markAssignmentAsPaid without its test of isPaid
AlreadyPaid_Never(row) == FALSE

\* markAssignmentAsPaid's test of the row it read
AlreadyPaid(row) == row.isPaid

PaidData == [isPaid |-> TRUE]

MarkPaidCode(c, a) ==
    IF a \notin Created THEN 404
    ELSE IF AlreadyPaid(assignments[a]) THEN 400
    ELSE 200

MarkAssignmentAsPaid(c, a) ==
    /\ Admitted(c, "markPaid")
    /\ assignments' = IF MarkPaidCode(c, a) = 200
                      THEN UpdateRow(assignments, a, PaidData)
                      ELSE assignments
    /\ last' = Response("markPaid", c, a, NULL, None, MarkPaidCode(c, a), NULL)
    /\ UNCHANGED <<users, tokens, gateway, procs>>

----------------------------------------------------------------------------
(* Downloads *)

\* GET /assignments/download/:assignmentId: authMiddleware alone
DownloadCode(a) ==
    IF a \notin Created \/ assignments[a].completedFileUrl = NULL THEN 404 ELSE 302

DownloadAssignment(c, a) ==
    /\ Admitted(c, "download")
    /\ last' = Response("download", c, a, NULL, None, DownloadCode(a),
                        IF DownloadCode(a) = 302
                        THEN assignments[a].completedFileUrl ELSE NULL)
    /\ UNCHANGED <<users, tokens, assignments, gateway, procs>>

\* prisma.assignment.findFirst({ where: { id: assignmentId, studentId } }):
\* a filter that is undefined filters nothing
FindOwnedBy(a, studentId) ==
    a \in Created /\ (studentId = UNDEFINED \/ assignments[a].studentId = studentId)

\* GET /assignments/download/completed/:assignmentId: authMiddleware alone
DownloadSolutionCode(c, a) ==
    IF ~FindOwnedBy(a, CallerId(c)) THEN 404
    ELSE IF ~assignments[a].isPaid THEN 403
    ELSE IF assignments[a].completedFileUrl = NULL THEN 404
    ELSE 302

DownloadSolutionFile(c, a) ==
    /\ Admitted(c, "downloadSolution")
    /\ last' = Response("downloadSolution", c, a, NULL, None, DownloadSolutionCode(c, a),
                        IF DownloadSolutionCode(c, a) = 302
                        THEN assignments[a].completedFileUrl ELSE NULL)
    /\ UNCHANGED <<users, tokens, assignments, gateway, procs>>

----------------------------------------------------------------------------
(* Payments: a transaction's reference is modelled by its assignment's id *)

\* !assignment || !assignment.tutorCharge
NoPrice(row) == row.tutorCharge = None \/ row.tutorCharge = Some(0)

InitializeCode(c, a) ==
    IF ~FindOwnedBy(a, CallerId(c)) THEN 404
    ELSE IF NoPrice(assignments[a]) THEN 404
    ELSE 200

InitializePaymentForAssignment(c, a) ==
    /\ Admitted(c, "initializePayment")
    /\ gateway' = IF InitializeCode(c, a) = 200 /\ gateway[a] = "none"
                  THEN [gateway EXCEPT ![a] = "pending"] ELSE gateway
    /\ last' = Response("initializePayment", c, a, NULL, None, InitializeCode(c, a), NULL)
    /\ UNCHANGED <<users, tokens, assignments, procs>>

\* the payer completes the transaction on the gateway's page
GatewayPayment(a) ==
    /\ gateway[a] = "pending"
    /\ gateway' = [gateway EXCEPT ![a] = "success"]
    /\ last' = Response("gatewayPayment", NULL, a, NULL, None, 0, NULL)
    /\ UNCHANGED <<users, tokens, assignments, procs>>

\* verifyPayment(reference): the request throws for a reference the gateway
\* does not know
VerifyCode(ref) ==
    IF gateway[ref] = "none" THEN 500
    ELSE IF gateway[ref] # "success" THEN 400
    ELSE 200

\* GET /payments/verify: authMiddleware alone
VerifyPaymentForAssignment(c, ref) ==
    /\ Admitted(c, "verifyPayment")
    /\ assignments' = IF VerifyCode(ref) = 200
                      THEN UpdateRow(assignments, ref, PaidData)
                      ELSE assignments
    /\ last' \in IF VerifyCode(ref) = 200 /\ assignments[ref].completedFileUrl # NULL
                 THEN Notified(Response("verifyPayment", c, ref, NULL, None, 200, NULL))
                 ELSE {Response("verifyPayment", c, ref, NULL, None, VerifyCode(ref), NULL)}
    /\ UNCHANGED <<users, tokens, gateway, procs>>

----------------------------------------------------------------------------
Next ==
    \/ \E role \in AllRoles, route \in Routes : RoleDenied(role, route)
    \/ \E u \in Tutors : RegisterTutor(u)
    \/ \E u \in UserIds : Login(u)
    \/ \E c \in Callers, t \in UserIds : ApproveTutor(c, t)
    \/ \E c \in Callers, t \in UserIds : DeleteTutor(c, t)
    \/ \E c \in Submitters, hasFile \in BOOLEAN, a \in AssignmentIds :
            SubmitAssignment(c, hasFile, a)
    \/ \E c \in Callers, a \in AssignmentIds, t \in UserIds :
            AssignAssignmentToTutor(c, a, t)
    \/ \E c \in Callers, a \in AssignmentIds, price \in PriceInputs :
            ReviewAndSetPrice(c, a, price)
    \/ \E c \in Callers, a \in AssignmentIds, fileUrl \in FileUrlInputs :
            CompleteAssignment(c, a, fileUrl)
    \/ \E c \in Callers, a \in AssignmentIds : RejectAssignment(c, a)
    \/ \E c \in Callers, a \in AssignmentIds : MarkAssignmentAsPaid(c, a)
    \/ \E c \in Callers, a \in AssignmentIds : DownloadAssignment(c, a)
    \/ \E c \in Callers, a \in AssignmentIds : DownloadSolutionFile(c, a)
    \/ \E c \in Callers, a \in AssignmentIds : InitializePaymentForAssignment(c, a)
    \/ \E a \in AssignmentIds : GatewayPayment(a)
    \/ \E c \in Callers, ref \in AssignmentIds : VerifyPaymentForAssignment(c, ref)

Spec == Init /\ [][Next]_vars

----------------------------------------------------------------------------
(* Two requests side by side.  A handler gives way at each await: a step is *)
(* one database call together with the synchronous code that follows it.    *)

\* a1 as submitAssignment creates it for s1
Submitted == NewAssignment("s1")

\* a1 after t1 has priced it at 50 and delivered Y
Delivered ==
    [NewAssignment("s1") EXCEPT !.status = "Completed", !.assignedTutorId = "t1",
                                !.tutorCharge = Some(50), !.completedFileUrl = "Y",
                                !.completedAt = "date"]

\* both tutors are approved and logged in, s1 has submitted a1
InitConc ==
    /\ users = [u \in UserIds |->
                    IF u \in Students THEN StudentRow
                    ELSE [TutorRow EXCEPT !.isApproved = TRUE]]
    /\ tokens = UserIds
    /\ assignments = ("a1" :> Submitted)
    /\ gateway = [a \in AssignmentIds |-> "none"]
    /\ last = NoResponse
    /\ procs = [p \in Procs |-> Idle]

Free(p) == procs[p].pc \in {"idle", "done"}

Goto(p, pc) == procs' = [procs EXCEPT ![p].pc = pc]
Finish(p, code) == procs' = [procs EXCEPT ![p].pc = "done", ![p].code = code]

\* the request passes the gate and its handler runs up to its first await
BeginAssign(p, c, a, t) ==
    /\ Free(p) /\ Admitted(c, "assign")
    /\ procs' = [procs EXCEPT ![p] = Request("find", "assign", c, a, t, None, NoRow, 0)]
    /\ UNCHANGED <<users, tokens, assignments, gateway, last>>

\* const assignment = await prisma.assignment.findUnique(...)
AssignFind(p) ==
    /\ procs[p].op = "assign" /\ procs[p].pc = "find"
    /\ IF procs[p].aid \notin Created
       THEN Finish(p, 404)
       ELSE procs' = [procs EXCEPT ![p].row = assignments[procs[p].aid],
                                   ![p].pc = "findTutor"]
    /\ UNCHANGED <<users, tokens, assignments, gateway, last>>

\* const tutor = await prisma.user.findFirst(...)
AssignFindTutor(p) ==
    /\ procs[p].op = "assign" /\ procs[p].pc = "findTutor"
    /\ IF FindApprovedTutor(procs[p].arg) = NoUser
       THEN Finish(p, 404)
       ELSE Goto(p, "update")
    /\ UNCHANGED <<users, tokens, assignments, gateway, last>>

\* await prisma.assignment.update(...); the update throws when the tutor's
\* row is gone (Assignment_assigned_tutor_id_fkey)
AssignUpdate(p) ==
    /\ procs[p].op = "assign" /\ procs[p].pc = "update"
    /\ IF Exists(procs[p].arg)
       THEN /\ assignments' = UpdateRow(assignments, procs[p].aid, AssignData(procs[p].arg))
            /\ Finish(p, 200)
       ELSE /\ UNCHANGED assignments
            /\ Finish(p, 500)
    /\ UNCHANGED <<users, tokens, gateway, last>>

BeginReview(p, c, a, price) ==
    /\ Free(p) /\ Admitted(c, "reviewAndSetPrice")
    /\ procs' = [procs EXCEPT ![p] =
                    IF InvalidPrice(price)
                    THEN Request("done", "reviewAndSetPrice", c, a, NULL, Some(price), NoRow, 400)
                    ELSE Request("find", "reviewAndSetPrice", c, a, NULL, Some(price), NoRow, 0)]
    /\ UNCHANGED <<users, tokens, assignments, gateway, last>>

ReviewFind(p) ==
    /\ procs[p].op = "reviewAndSetPrice" /\ procs[p].pc = "find"
    /\ IF ~FindAssignedTo(procs[p].aid, CallerId(procs[p].caller))
       THEN Finish(p, 404)
       ELSE IF NotAssignable(assignments[procs[p].aid])
       THEN procs' = [procs EXCEPT ![p].row = assignments[procs[p].aid],
                                   ![p].pc = "done", ![p].code = 400]
       ELSE procs' = [procs EXCEPT ![p].row = assignments[procs[p].aid],
                                   ![p].pc = "update"]
    /\ UNCHANGED <<users, tokens, assignments, gateway, last>>

ReviewUpdate(p) ==
    /\ procs[p].op = "reviewAndSetPrice" /\ procs[p].pc = "update"
    /\ assignments' = UpdateRow(assignments, procs[p].aid, PriceData(procs[p].price[1]))
    /\ Finish(p, 200)
    /\ UNCHANGED <<users, tokens, gateway, last>>

BeginReject(p, c, a) ==
    /\ Free(p) /\ Admitted(c, "reject")
    /\ procs' = [procs EXCEPT ![p] = Request("find", "reject", c, a, NULL, None, NoRow, 0)]
    /\ UNCHANGED <<users, tokens, assignments, gateway, last>>

RejectFind(p) ==
    /\ procs[p].op = "reject" /\ procs[p].pc = "find"
    /\ IF procs[p].aid \notin Created
       THEN Finish(p, 404)
       ELSE IF NotRejectable(assignments[procs[p].aid])
       THEN procs' = [procs EXCEPT ![p].row = assignments[procs[p].aid],
                                   ![p].pc = "done", ![p].code = 400]
       ELSE procs' = [procs EXCEPT ![p].row = assignments[procs[p].aid],
                                   ![p].pc = "update"]
    /\ UNCHANGED <<users, tokens, assignments, gateway, last>>

RejectUpdate(p) ==
    /\ procs[p].op = "reject" /\ procs[p].pc = "update"
    /\ assignments' = UpdateRow(assignments, procs[p].aid, RejectData)
    /\ Finish(p, 200)
    /\ UNCHANGED <<users, tokens, gateway, last>>

BeginMarkPaid(p, c, a) ==
    /\ Free(p) /\ Admitted(c, "markPaid")
    /\ procs' = [procs EXCEPT ![p] = Request("find", "markPaid", c, a, NULL, None, NoRow, 0)]
    /\ UNCHANGED <<users, tokens, assignments, gateway, last>>

MarkPaidFind(p) ==
    /\ procs[p].op = "markPaid" /\ procs[p].pc = "find"
    /\ IF procs[p].aid \notin Created
       THEN Finish(p, 404)
       ELSE IF AlreadyPaid(assignments[procs[p].aid])
       THEN procs' = [procs EXCEPT ![p].row = assignments[procs[p].aid],
                                   ![p].pc = "done", ![p].code = 400]
       ELSE procs' = [procs EXCEPT ![p].row = assignments[procs[p].aid],
                                   ![p].pc = "update"]
    /\ UNCHANGED <<users, tokens, assignments, gateway, last>>

MarkPaidUpdate(p) ==
    /\ procs[p].op = "markPaid" /\ procs[p].pc = "update"
    /\ assignments' = UpdateRow(assignments, procs[p].aid, PaidData)
    /\ Finish(p, 200)
    /\ UNCHANGED <<users, tokens, gateway, last>>

SolutionAvailable == "Assignment Solution Available"

BeginVerify(p, c, ref) ==
    /\ Free(p) /\ Admitted(c, "verifyPayment")
    /\ procs' = [procs EXCEPT ![p] = Request("gateway", "verifyPayment", c, ref, NULL, None, NoRow, 0)]
    /\ UNCHANGED <<users, tokens, assignments, gateway, last>>

\* const verificationData = await verifyPayment(reference.toString())
VerifyGateway(p) ==
    /\ procs[p].op = "verifyPayment" /\ procs[p].pc = "gateway"
    /\ IF VerifyCode(procs[p].aid) # 200
       THEN Finish(p, VerifyCode(procs[p].aid))
       ELSE Goto(p, "update")
    /\ UNCHANGED <<users, tokens, assignments, gateway, last>>

\* const assignment = await prisma.assignment.update(...): the request keeps
\* the row the update returns and mails the student when it holds a solution
VerifyUpdate(p) ==
    /\ procs[p].op = "verifyPayment" /\ procs[p].pc = "update"
    /\ assignments' = UpdateRow(assignments, procs[p].aid, PaidData)
    /\ procs' = [procs EXCEPT
                    ![p].row = assignments'[procs[p].aid],
                    ![p].pc = IF assignments'[procs[p].aid].completedFileUrl # NULL
                              THEN "email" ELSE "done",
                    ![p].code = IF assignments'[procs[p].aid].completedFileUrl # NULL
                                THEN 0 ELSE 200]
    /\ UNCHANGED <<users, tokens, gateway, last>>

\* await sendEmail({ subject: "Assignment Solution Available" })
VerifyEmail(p) ==
    /\ procs[p].op = "verifyPayment" /\ procs[p].pc = "email"
    /\ procs' = [procs EXCEPT ![p].arg = SolutionAvailable,
                              ![p].pc = "done", ![p].code = 200]
    /\ UNCHANGED <<users, tokens, assignments, gateway, last>>

NextConc ==
    \/ \E p \in Procs, c \in Callers, a \in AssignmentIds, t \in UserIds :
            BeginAssign(p, c, a, t)
    \/ \E p \in Procs : AssignFind(p)
    \/ \E p \in Procs : AssignFindTutor(p)
    \/ \E p \in Procs : AssignUpdate(p)
    \/ \E p \in Procs, c \in Callers, a \in AssignmentIds, price \in ConcPriceInputs :
            BeginReview(p, c, a, price)
    \/ \E p \in Procs : ReviewFind(p)
    \/ \E p \in Procs : ReviewUpdate(p)
    \/ \E p \in Procs, c \in Callers, a \in AssignmentIds : BeginReject(p, c, a)
    \/ \E p \in Procs : RejectFind(p)
    \/ \E p \in Procs : RejectUpdate(p)
    \/ \E p \in Procs, c \in Callers, a \in AssignmentIds : BeginMarkPaid(p, c, a)
    \/ \E p \in Procs : MarkPaidFind(p)
    \/ \E p \in Procs : MarkPaidUpdate(p)

SpecConc == InitConc /\ [][NextConc]_vars

----------------------------------------------------------------------------
(* Two payment requests side by side *)

\* as InitConc, but a1 is delivered and s1 has opened, and perhaps completed,
\* its payment on the gateway's page
InitPay ==
    /\ users = [u \in UserIds |->
                    IF u \in Students THEN StudentRow
                    ELSE [TutorRow EXCEPT !.isApproved = TRUE]]
    /\ tokens = UserIds
    /\ assignments = ("a1" :> Delivered)
    /\ gateway \in [AssignmentIds -> {"pending", "success"}]
    /\ last = NoResponse
    /\ procs = [p \in Procs |-> Idle]

NextPay ==
    \/ \E p \in Procs, c \in Callers, a \in AssignmentIds : BeginMarkPaid(p, c, a)
    \/ \E p \in Procs : MarkPaidFind(p)
    \/ \E p \in Procs : MarkPaidUpdate(p)
    \/ \E p \in Procs, c \in Callers, ref \in AssignmentIds : BeginVerify(p, c, ref)
    \/ \E p \in Procs : VerifyGateway(p)
    \/ \E p \in Procs : VerifyUpdate(p)
    \/ \E p \in Procs : VerifyEmail(p)

SpecPay == InitPay /\ [][NextPay]_vars

----------------------------------------------------------------------------
(* The GET routes of the assignment router *)

\* the routes in the order router.get registers them; a path is the sequence
\* of its segments after /assignments
GetRoutes ==
    << [path |-> <<"pending">>, roles |-> {"ADMIN"}, handler |-> "getPendingAssignments"],
       [path |-> <<"tutor-pending">>, roles |-> {"TUTOR"},
        handler |-> "getTutorPendingAssignments"],
       [path |-> <<>>, roles |-> {"ADMIN"}, handler |-> "getAllAssignments"],
       [path |-> <<":assignmentId">>, roles |-> AllRoles, handler |-> "getAssignmentById"],
       [path |-> <<"tutor">>, roles |-> {"TUTOR"}, handler |-> "getTutorAssignments"],
       [path |-> <<"student">>, roles |-> {"STUDENT"}, handler |-> "getStudentAssignments"],
       [path |-> <<"download", ":assignmentId">>, roles |-> AllRoles,
        handler |-> "downloadAssignment"],
       [path |-> <<"download", "completed", ":assignmentId">>, roles |-> AllRoles,
        handler |-> "downloadSolutionFile"] >>

\* a segment that names a parameter matches any segment
IsParam(segment) == segment = ":assignmentId"

Matches(pattern, path) ==
    /\ Len(pattern) = Len(path)
    /\ \A i \in 1..Len(pattern) : IsParam(pattern[i]) \/ pattern[i] = path[i]

\* the router runs the first registered route whose path matches; none of
\* these routes' callbacks calls next() once its handler has answered
Dispatch(path) ==
    LET hits == {i \in DOMAIN GetRoutes : Matches(GetRoutes[i].path, path)}
    IN  CHOOSE i \in hits : \A j \in hits : i <= j

\* the paths requested: a list route or an assignment's id
GetPaths == {<<"tutor">>, <<"student">>, <<"a1">>}

\* getAssignmentById: 404 when no row has the id
ByIdList(id) == {a \in Created : a = id}

\* getTutorAssignments: findMany({ where: { assignedTutorId: tutorId } })
TutorList(c) ==
    {a \in Created : CallerId(c) = UNDEFINED \/ assignments[a].assignedTutorId = CallerId(c)}

\* getStudentAssignments: findMany({ where: { studentId } })
StudentList(c) ==
    {a \in Created : CallerId(c) = UNDEFINED \/ assignments[a].studentId = CallerId(c)}

GetList(handler, c, path) ==
    IF handler = "getAssignmentById" THEN ByIdList(path[1])
    ELSE IF handler = "getTutorAssignments" THEN TutorList(c)
    ELSE StudentList(c)

\* getAssignmentById and getTutorAssignments answer 404 for nothing found,
\* getStudentAssignments answers the empty list
GetCode(handler, c, path) ==
    IF handler \in {"getAssignmentById", "getTutorAssignments"}
       /\ GetList(handler, c, path) = {}
    THEN 404 ELSE 200

\* GET /assignments/<path> from a caller the matched route lets through
GetAssignments(c, path) ==
    LET route == GetRoutes[Dispatch(path)]
    IN  /\ Authenticated(c) /\ RoleAllowed(c, route.roles)
        /\ last' = [Response(route.handler, c, NULL, path[1], None,
                             GetCode(route.handler, c, path), NULL)
                        EXCEPT !.list = IF GetCode(route.handler, c, path) = 200
                                        THEN GetList(route.handler, c, path) ELSE {}]
        /\ UNCHANGED <<users, tokens, assignments, gateway, procs>>

----------------------------------------------------------------------------
(* Requests the gate turns away, malformed prices and the tutors' queue *)

\* as InitConc
InitInputs ==
    /\ users = [u \in UserIds |->
                    IF u \in Students THEN StudentRow
                    ELSE [TutorRow EXCEPT !.isApproved = TRUE]]
    /\ tokens = UserIds
    /\ assignments = ("a1" :> Submitted)
    /\ gateway = [a \in AssignmentIds |-> "none"]
    /\ last = NoResponse
    /\ procs = [p \in Procs |-> Idle]

NextInputs ==
    \/ \E cred \in BadCredentials, route \in Routes : AuthDenied(cred, route)
    \/ \E role \in AllRoles, route \in Routes : RoleDenied(role, route)
    \/ \E c \in Callers, t \in UserIds : DeleteTutor(c, t)
    \/ \E c \in Callers, a \in AssignmentIds, t \in UserIds :
            AssignAssignmentToTutor(c, a, t)
    \/ \E c \in Callers, a \in AssignmentIds, price \in BodyPrices :
            ReviewAndSetPrice(c, a, price)
    \/ \E c \in Callers, a \in AssignmentIds : RejectAssignment(c, a)
    \/ \E c \in Callers : GetTutorPendingAssignments(c)
    \/ \E c \in Callers, path \in GetPaths : GetAssignments(c, path)

SpecInputs == InitInputs /\ [][NextInputs]_vars

----------------------------------------------------------------------------
(* Properties *)

TutorStatuses == {"Assigned", "In Progress", "Completed", "Rejected"}

\* the step handled a request of one of ops that reached its handler and
\* named assignment a
Handled(ops, a) == last'.op \in ops /\ last'.aid = a

Failed(code) == code >= 400

\* C1: in every reachable state every assignment has a non-null
\* assignedTutorId if and only if its status is Assigned, In Progress,
\* Completed or Rejected.
C1_TutorIffStatus ==
    \A a \in Created :
        (assignments[a].assignedTutorId # NULL)
            <=> (assignments[a].status \in TutorStatuses)

\* C2: a transition request made while the assignment is not in the
\* transition's source state (assign when not Pending, review-and-price or
\* reject when not Assigned, complete when not In Progress) fails and leaves
\* the table as it was.
C2_NonSourceStateFails ==
    [][\A a \in Created :
        (\/ Handled({"assign"}, a) /\ assignments[a].status # "Pending"
         \/ Handled({"reviewAndSetPrice", "reject"}, a)
                /\ assignments[a].status # "Assigned"
         \/ Handled({"complete"}, a) /\ assignments[a].status # "In Progress")
        => Failed(last'.code) /\ assignments' = assignments]_vars

\* C3: a review-and-price, complete or reject request by a caller who is not
\* the assignment's assignedTutorId is rejected (an error status, whichever
\* class the handler picks) and leaves the table as it was.
C3_OnlyAssignedTutor ==
    [][\A a \in Created :
        (Handled({"reviewAndSetPrice", "complete", "reject"}, a)
            /\ last'.caller # assignments[a].assignedTutorId)
        => Failed(last'.code) /\ assignments' = assignments]_vars

\* C4: the server redirects a caller to an assignment's completedFileUrl, on
\* either download route, only if the assignment is paid and the caller is
\* the student who owns it.
C4_RedirectOnlyPaidOwner ==
    (last.op \in {"download", "downloadSolution"} /\ last.code = 302)
        => /\ assignments[last.aid].isPaid
           /\ last.caller = assignments[last.aid].studentId

\* C5: on GET /assignments/download/completed/{id} the owning student gets
\* PaymentRequired (403) while isPaid is false and a redirect to
\* completedFileUrl once isPaid is true; every other caller gets 404 or 403.
C5_DownloadCompleted ==
    (last.op = "downloadSolution" /\ last.aid \in Created)
        => LET row == assignments[last.aid] IN
           IF last.caller = row.studentId
           THEN IF row.isPaid
                THEN last.code = 302 /\ last.redirect = row.completedFileUrl
                ELSE last.code = 403
           ELSE last.code \in {403, 404}

\* C6: isPaid goes from false to true only on an assignment whose status is
\* Completed.
C6_PaidOnlyWhenCompleted ==
    [][\A a \in Created :
        (~assignments[a].isPaid /\ assignments'[a].isPaid)
            => assignments[a].status = "Completed"]_vars

\* C7: a mark-paid request by a STUDENT changes isPaid only on that student's
\* own assignment.
C7_StudentMarksOwnOnly ==
    [][\A a \in Created :
        (Handled({"markPaid"}, a) /\ CallerRole(last'.caller) = "STUDENT"
            /\ assignments'[a].isPaid # assignments[a].isPaid)
        => last'.caller = assignments[a].studentId]_vars

\* two requests in flight have both been answered
BothDone(p, q) == p # q /\ procs[p].pc = "done" /\ procs[q].pc = "done"

\* C8: two assign-to-tutor requests naming different approved tutors that both read
\* the same assignment while it was Pending: exactly one is answered 200, the
\* other 400, and the stored assignedTutorId is the winner's tutor.
C8_OneAssignWins ==
    \A p, q \in Procs :
        (/\ BothDone(p, q)
         /\ procs[p].op = "assign" /\ procs[q].op = "assign"
         /\ procs[p].aid = procs[q].aid /\ procs[p].arg # procs[q].arg
         /\ FindApprovedTutor(procs[p].arg) # NoUser
         /\ FindApprovedTutor(procs[q].arg) # NoUser
         /\ procs[p].row.status = "Pending" /\ procs[q].row.status = "Pending")
        => \E w \in {p, q} :
              /\ procs[w].code = 200
              /\ \A l \in {p, q} \ {w} : procs[l].code = 400
              /\ assignments[procs[w].aid].assignedTutorId = procs[w].arg

\* C9: a review-and-price and a reject request by the assigned tutor that
\* both read the assignment while it was Assigned are not both answered 200,
\* and no assignment is Rejected with a tutorCharge.
C9_PriceRejectExclusive ==
    /\ \A p, q \in Procs :
        (/\ BothDone(p, q)
         /\ procs[p].op = "reviewAndSetPrice" /\ procs[q].op = "reject"
         /\ procs[p].aid = procs[q].aid
         /\ procs[p].row.status = "Assigned" /\ procs[q].row.status = "Assigned")
        => ~(procs[p].code = 200 /\ procs[q].code = 200)
    /\ \A a \in Created :
        ~(assignments[a].status = "Rejected" /\ assignments[a].tutorCharge # None)

\* C10: once an assignment is paid it stays paid and every mark-paid request
\* on it is answered 400 (already paid); a mark-paid request answered 200
\* leaves it paid.
C10_MarkPaidIdempotent ==
    [][\A a \in Created :
        /\ assignments[a].isPaid
            => /\ assignments'[a].isPaid
               /\ Handled({"markPaid"}, a) => last'.code = 400
        /\ (Handled({"markPaid"}, a) /\ last'.code = 200)
            => assignments'[a].isPaid]_vars

\* a second mark-paid request on an assignment that only mark-paid can have
\* paid (the gateway holds no successful transaction for it) was answered 400
C10_Witness ==
    /\ last.op = "markPaid" /\ last.code = 400
    /\ last.aid \in Created
    /\ assignments[last.aid].isPaid
    /\ gateway[last.aid] # "success"

\* C11: of the mark-paid requests on one assignment at most one is answered
\* 200 (it applied the change of isPaid); the others are answered 400.
C11_OneMarkPaidApplies ==
    \A p, q \in Procs :
        (/\ BothDone(p, q)
         /\ procs[p].op = "markPaid" /\ procs[q].op = "markPaid"
         /\ procs[p].aid = procs[q].aid /\ procs[p].aid \in Created
         /\ procs[p].code = 200)
        => procs[q].code = 400

\* C12: of the verifications of one successful payment reference at most one
\* writes isPaid and at most one sends the "Assignment Solution Available"
\* email, whether the requests follow one another or overlap.
C12_VerifyAppliesOnce ==
    \A p, q \in Procs :
        (/\ BothDone(p, q)
         /\ procs[p].op = "verifyPayment" /\ procs[q].op = "verifyPayment"
         /\ procs[p].aid = procs[q].aid
         /\ procs[p].code = 200 /\ procs[q].code = 200)
        => /\ ~(procs[p].row # NoRow /\ procs[q].row # NoRow)
           /\ ~(procs[p].arg = SolutionAvailable /\ procs[q].arg = SolutionAvailable)

\* C13: each step of the lifecycle does what the scenario says.  A student's
\* submit with a file is answered 201 and stores a Pending row of that student;
\* assign of a Pending row to an approved tutor T gives Assigned with
\* assignedTutorId = T; review-and-price by T of the row assigned to T gives
\* In Progress with tutorCharge = the price; complete(fileUrl) by T of that row
\* gives Completed with completedFileUrl = fileUrl; mark-paid by the owner of
\* the unpaid Completed row gives isPaid; the owner's download/completed then
\* redirects to completedFileUrl.
C13_LifecycleSteps ==
    [][/\ (last'.op = "submit" /\ last'.caller \in Students /\ last'.arg = "X")
            => /\ last'.code = 201
               /\ last'.aid \in Created' \ Created
               /\ assignments'[last'.aid].status = "Pending"
               /\ assignments'[last'.aid].studentId = last'.caller
       /\ \A a \in Created :
            /\ (/\ Handled({"assign"}, a)
                /\ assignments[a].status = "Pending"
                /\ FindApprovedTutor(last'.arg) # NoUser)
                => /\ last'.code = 200
                   /\ assignments'[a].status = "Assigned"
                   /\ assignments'[a].assignedTutorId = last'.arg
            /\ (/\ Handled({"reviewAndSetPrice"}, a)
                /\ assignments[a].status = "Assigned"
                /\ last'.caller \in Tutors
                /\ assignments[a].assignedTutorId = last'.caller
                /\ last'.price # None /\ last'.price[1] > 0)
                => /\ last'.code = 200
                   /\ assignments'[a].status = "In Progress"
                   /\ assignments'[a].tutorCharge = last'.price
            /\ (/\ Handled({"complete"}, a)
                /\ assignments[a].status = "In Progress"
                /\ last'.caller \in Tutors
                /\ assignments[a].assignedTutorId = last'.caller)
                => /\ last'.code = 200
                   /\ assignments'[a].status = "Completed"
                   /\ assignments'[a].completedFileUrl = last'.arg
            /\ (/\ Handled({"markPaid"}, a)
                /\ assignments[a].status = "Completed"
                /\ assignments[a].studentId = last'.caller
                /\ ~assignments[a].isPaid)
                => /\ last'.code = 200
                   /\ assignments'[a].isPaid
            /\ (/\ Handled({"downloadSolution"}, a)
                /\ assignments[a].status = "Completed"
                /\ assignments[a].completedFileUrl # NULL
                /\ assignments[a].studentId = last'.caller
                /\ assignments[a].isPaid)
                => /\ last'.code = 302
                   /\ last'.redirect = assignments[a].completedFileUrl]_vars

\* the scenario has run to its end: the owner is redirected to Y for a row
\* priced at 50, delivered by its tutor and marked paid by hand
C13_Witness ==
    /\ last.op = "downloadSolution" /\ last.code = 302 /\ last.redirect = "Y"
    /\ last.aid \in Created
    /\ last.caller = assignments[last.aid].studentId
    /\ last.caller \in Students
    /\ assignments[last.aid].status = "Completed"
    /\ assignments[last.aid].assignedTutorId \in Tutors
    /\ assignments[last.aid].tutorCharge = Some(50)
    /\ assignments[last.aid].completedFileUrl = "Y"
    /\ assignments[last.aid].isPaid
    /\ gateway[last.aid] = "none"

\* C14: an assign-to-tutor request whose tutorId names no user, a user that
\* is not a TUTOR or a tutor that is not approved is answered 400 or 404 and
\* leaves the assignment's status and assignedTutorId as they were.
C14_AssignNeedsApprovedTutor ==
    [][\A a \in Created :
        (/\ Handled({"assign"}, a)
         /\ \/ ~Exists(last'.arg)
            \/ users[last'.arg].role # "TUTOR"
            \/ ~users[last'.arg].isApproved)
        => /\ last'.code \in {400, 404}
           /\ a \in Created'
           /\ assignments'[a].status = assignments[a].status
           /\ assignments'[a].assignedTutorId = assignments[a].assignedTutorId]_vars

\* the admin has just named a registered tutor who is not approved
C14_Witness ==
    /\ last.op = "assign" /\ last.code = 404
    /\ last.aid \in Created
    /\ users[last.arg].state = "active"
    /\ users[last.arg].role = "TUTOR"
    /\ ~users[last.arg].isApproved

\* C15: tutorCharge is non-null exactly when status is In Progress or
\* Completed.
C15_ChargeIffPriced ==
    \A a \in Created :
        assignments[a].tutorCharge # None
            <=> assignments[a].status \in {"In Progress", "Completed"}

\* C16: completedFileUrl and completedAt are non-null exactly when status is
\* Completed.
C16_SolutionIffCompleted ==
    \A a \in Created :
        /\ assignments[a].completedFileUrl # NULL <=> assignments[a].status = "Completed"
        /\ assignments[a].completedAt # NULL <=> assignments[a].status = "Completed"

\* C17: isPaid never goes from true to false, whatever the request.
C17_IsPaidMonotonic ==
    [][\A a \in Created :
        assignments[a].isPaid => a \in Created' /\ assignments'[a].isPaid]_vars

\* a paid row has since been written by another handler
C17_Witness ==
    /\ last.op \in {"assign", "complete"} /\ last.code = 200
    /\ last.aid \in Created
    /\ assignments[last.aid].isPaid

\* the order of the statuses a row passes through
Rank(status) ==
    CASE status = "Pending" -> 0
      [] status = "Assigned" -> 1
      [] status = "In Progress" -> 2
      [] status = "Completed" -> 3
      [] OTHER -> 4

\* C18: a status that changes moves forward along Pending, Assigned,
\* In Progress, Completed, or from Assigned to Rejected; In Progress and
\* Completed never fall back, and Completed is entered from In Progress alone.
C18_StatusForward ==
    [][\A a \in Created :
        (assignments[a].status # "Rejected"
         /\ assignments'[a].status # assignments[a].status)
        => /\ \/ assignments[a].status = "Assigned" /\ assignments'[a].status = "Rejected"
              \/ /\ assignments'[a].status # "Rejected"
                 /\ Rank(assignments'[a].status) > Rank(assignments[a].status)
           /\ assignments'[a].status = "Completed"
                => assignments[a].status = "In Progress"]_vars

\* C19: a Rejected assignment stays Rejected.
C19_RejectedTerminal ==
    [][\A a \in Created :
        assignments[a].status = "Rejected" => assignments'[a].status = "Rejected"]_vars

\* C20: once review-and-price has stored a tutorCharge, no request changes it.
C20_ChargeSetOnce ==
    [][\A a \in Created :
        assignments[a].tutorCharge # None
            => assignments'[a].tutorCharge = assignments[a].tutorCharge]_vars

\* C21: once complete has stored a solution, a later complete request does not
\* replace completedFileUrl or completedAt.
C21_SolutionSetOnce ==
    [][\A a \in Created :
        (assignments[a].status = "Completed" /\ assignments[a].completedFileUrl # NULL)
        => /\ assignments'[a].completedFileUrl = assignments[a].completedFileUrl
           /\ assignments'[a].completedAt = assignments[a].completedAt]_vars

\* C22: a request whose emails fail to be sent is still answered with success
\* and what it stored stays stored; this holds for submit, assign-to-tutor,
\* review-and-price, complete, payment verify and approve-tutor.
C22_MailFailureHarmless ==
    [][last'.mail = "failed"
        => /\ last'.code \in {200, 201}
           /\ last'.op = "submit"
                => /\ last'.aid \in Created' \ Created
                   /\ assignments'[last'.aid].status = "Pending"
           /\ last'.op = "assign"
                => /\ assignments'[last'.aid].status = "Assigned"
                   /\ assignments'[last'.aid].assignedTutorId = last'.arg
           /\ last'.op = "reviewAndSetPrice"
                => /\ assignments'[last'.aid].status = "In Progress"
                   /\ assignments'[last'.aid].tutorCharge = last'.price
           /\ last'.op = "complete"
                => /\ assignments'[last'.aid].status = "Completed"
                   /\ assignments'[last'.aid].completedFileUrl = last'.arg
           /\ last'.op = "verifyPayment" => assignments'[last'.aid].isPaid
           /\ last'.op = "approveTutor" => users'[last'.arg].isApproved]_vars

\* the tutor has priced a1 and neither email about it could be sent
C22_Witness ==
    /\ last.op = "reviewAndSetPrice" /\ last.mail = "failed" /\ last.code = 200
    /\ assignments[last.aid].status = "In Progress"
    /\ assignments[last.aid].tutorCharge = last.price

\* C23: the response of a transition that notifies does not wait for the
\* email: once the transition is stored and its email is on its way, the
\* request can be answered with the email still unfinished.
C23_ResponseBeforeMail ==
    \A p \in Procs :
        procs[p].pc = "email"
            => ENABLED (/\ NextPay
                        /\ procs'[p].pc = "done"
                        /\ procs'[p].arg # SolutionAvailable)

\* C24: a request with no cookie, or with one that fails verification, is
\* answered 401; a request whose valid credential has a role the route does
\* not allow is answered 403; neither reaches the handler, so nothing is
\* written.
C24_GateRejects ==
    [][/\ last'.caller \in BadCredentials
            => /\ last'.code = 401
               /\ UNCHANGED <<users, tokens, assignments, gateway>>
       /\ last'.caller \in AllRoles
            => /\ last'.code = 403
               /\ UNCHANGED <<users, tokens, assignments, gateway>>]_vars

\* C25: a submit request from a caller whose role is TUTOR or ADMIN creates
\* no assignment.
C25_OnlyStudentsSubmit ==
    [][(/\ last'.op = "submit"
        /\ last'.caller \in Callers
        /\ CallerRole(last'.caller) # "STUDENT")
       => Created' = Created]_vars

\* C26: a payment-verify request from a caller who is neither the admin nor
\* the student who owns the assignment does not set isPaid on it.
C26_VerifyByOwnerOrAdmin ==
    [][\A a \in Created :
        (/\ Handled({"verifyPayment"}, a)
         /\ last'.caller \notin {ADMIN, assignments[a].studentId})
        => assignments'[a].isPaid = assignments[a].isPaid]_vars

\* a finite number greater than 0
FinitePositive(n) == n # NaN /\ n # Infinity /\ n > 0

\* C27: an assign-to-tutor, review-and-price, reject, complete, mark-paid or
\* payment-verify request that names an assignment that does not exist (and,
\* for review-and-price, a well-formed price) is answered 404 and writes
\* nothing.
C27_AbsentIsNotFound ==
    [][\A a \in AssignmentIds \ Created :
        (/\ Handled({"assign", "reviewAndSetPrice", "reject", "complete", "markPaid",
                     "verifyPayment"}, a)
         /\ last'.op = "reviewAndSetPrice" => FinitePositive(last'.price[1]))
        => /\ last'.code = 404
           /\ UNCHANGED <<users, assignments, gateway>>]_vars

\* C28: a review-and-price request whose price is not a finite number greater
\* than 0 is answered 400 and leaves the assignments as they were, whatever
\* the assignment's state and whichever tutor sends it.
C28_MalformedPriceRejected ==
    [][(/\ last'.op = "reviewAndSetPrice"
        /\ last'.price # None
        /\ ~FinitePositive(last'.price[1]))
       => /\ last'.code = 400
          /\ assignments' = assignments]_vars

\* C29: a logged-in tutor who asks for the tutor-pending queue is answered 200
\* with exactly the assignments of the tutor's programSpecialty that are
\* Assigned with no assignedTutorId.
C29_PendingQueue ==
    [][(last'.op = "tutorPending" /\ last'.caller \in Tutors)
       => /\ last'.code = 200
          /\ last'.list =
                {a \in Created :
                    /\ AssignmentSpecialty(a) = TutorSpecialty(last'.caller)
                    /\ assignments[a].status = "Assigned"
                    /\ assignments[a].assignedTutorId = NULL}]_vars

\* C30: every assignedTutorId that is not null names an existing user whose
\* role is TUTOR and who is approved; no assignment is held by a student, by
\* the admin, by an unapproved tutor or by a deleted one.
C30_AssigneeIsApprovedTutor ==
    \A a \in Created :
        assignments[a].assignedTutorId # NULL
            => /\ assignments[a].assignedTutorId \in UserIds
               /\ users[assignments[a].assignedTutorId].state = "active"
               /\ users[assignments[a].assignedTutorId].role = "TUTOR"
               /\ users[assignments[a].assignedTutorId].isApproved

\* the admin has deleted the tutor that an assignment was assigned to
C30_Witness ==
    /\ last.op = "deleteTutor" /\ last.code = 200
    /\ users[last.arg] = Deleted
    /\ \E a \in Created :
        /\ assignments[a].status \in {"Assigned", "In Progress", "Completed"}
        /\ assignments[a].assignedTutorId = NULL

\* C31: a tutor gets a session cookie from login only after an approve-tutor
\* request for that tutor has succeeded: the cookie is issued by the tutor's
\* own login while isApproved is true, isApproved becomes true only through a
\* successful approve-tutor, and the login of an unapproved tutor is rejected
\* and issues nothing.
C31_TutorLoginNeedsApproval ==
    [][\A t \in Tutors :
        /\ (t \notin tokens /\ t \in tokens')
            => /\ users[t].state = "active" /\ users[t].isApproved
               /\ last'.op = "login" /\ last'.caller = t
        /\ (last'.op = "login" /\ last'.caller = t /\ ~users[t].isApproved)
            => /\ last'.code \in {400, 403}
               /\ tokens' = tokens
        /\ (~users[t].isApproved /\ users'[t].isApproved)
            => /\ last'.op = "approveTutor" /\ last'.arg = t
               /\ last'.code = 200]_vars

\* a registered tutor who is not approved has just been refused at login
C31_Witness ==
    /\ last.op = "login" /\ last.code = 403
    /\ last.caller \in Tutors
    /\ users[last.caller].state = "active"
    /\ ~users[last.caller].isApproved
    /\ last.caller \notin tokens

\* C32: studentId and fileUrl of an existing assignment never change.
C32_OwnerAndFileImmutable ==
    [][\A a \in Created :
        /\ a \in Created'
        /\ assignments'[a].studentId = assignments[a].studentId
        /\ assignments'[a].fileUrl = assignments[a].fileUrl]_vars

\* a1 has gone through assign, pricing, completion and payment and still
\* carries the student and file it was submitted with
C32_Witness ==
    \E a \in Created :
        /\ assignments[a].status = "Completed"
        /\ assignments[a].isPaid
        /\ assignments[a].tutorCharge # None
        /\ assignments[a].studentId = "s1"
        /\ assignments[a].fileUrl = "X"
        /\ last.op = "verifyPayment" /\ last.code = 200

\* C33: no request removes an assignment; the set of ids only grows.
C33_NeverDeleted ==
    [][Created \subseteq Created']_vars

\* the tutor of a paid, completed assignment has been deleted and the
\* assignment is still there
C33_Witness ==
    /\ last.op = "deleteTutor" /\ last.code = 200
    /\ \E a \in Created :
        /\ assignments[a].status = "Completed"
        /\ assignments[a].isPaid
        /\ assignments[a].assignedTutorId = NULL

\* C34: every request that turns isPaid from false to true, be it mark-paid or
\* payment verification, sends the owning student an email.
C34_PaidNotifies ==
    [][\A a \in Created :
        (~assignments[a].isPaid /\ assignments'[a].isPaid)
        => last'.mail \in MailOutcomes]_vars

\* C35: every status is one of Pending, Assigned, In Progress, Completed,
\* Rejected, and a row that submit has just created is Pending with no tutor,
\* no charge, no solution and isPaid false.
C35_StatusesAndDefaults ==
    [][/\ \A a \in Created' :
            assignments'[a].status \in
                {"Pending", "Assigned", "In Progress", "Completed", "Rejected"}
       /\ \A a \in Created' \ Created :
            /\ assignments'[a].status = "Pending"
            /\ assignments'[a].assignedTutorId = NULL
            /\ assignments'[a].tutorCharge = None
            /\ assignments'[a].completedFileUrl = NULL
            /\ ~assignments'[a].isPaid]_vars

\* a student's submit has just been answered 201
C35_Witness ==
    /\ last.op = "submit" /\ last.code = 201
    /\ last.aid \in Created
    /\ assignments[last.aid].status = "Pending"
    /\ assignments[last.aid].studentId = last.caller

\* C36: GET /assignments/tutor from a tutor is handled by getTutorAssignments
\* and lists the assignments assigned to that tutor; GET /assignments/student
\* from a student is handled by getStudentAssignments and lists that student's
\* assignments.
C36_ListRoutesReached ==
    [][/\ (last'.arg = "tutor" /\ last'.caller \in Tutors)
            => /\ last'.op = "getTutorAssignments"
               /\ last'.list = {a \in Created : assignments[a].assignedTutorId = last'.caller}
       /\ (last'.arg = "student" /\ last'.caller \in Students)
            => /\ last'.op = "getStudentAssignments"
               /\ last'.list = {a \in Created : assignments[a].studentId = last'.caller}]_vars

\* C37: a request answered with an error status (400, 401, 403, 404 or 500)
\* leaves every assignment record as it was before the request: no handler
\* writes to the store and then reports failure.
C37_ErrorsWriteNothing ==
    [][Failed(last'.code) => assignments' = assignments]_vars

\* a priced review is refused for an assignment that is assigned, and the row
\* still is
C37_Witness ==
    /\ last.op = "reviewAndSetPrice" /\ Failed(last.code)
    /\ last.aid \in Created
    /\ assignments[last.aid].status = "Assigned"
    /\ assignments[last.aid].tutorCharge = None

\* C38: payment initialization answers 200 with an authorization URL only when
\* the caller is the assignment's owning student and its tutorCharge is set and
\* non-zero; otherwise it answers 404; either way the assignment records are
\* left unchanged.
C38_InitializeOwnerPriced ==
    [][\A a \in AssignmentIds :
        Handled({"initializePayment"}, a)
            => /\ assignments' = assignments
               /\ last'.code \in {200, 404}
               /\ last'.code = 200
                    <=> /\ a \in Created
                        /\ last'.caller = assignments[a].studentId
                        /\ assignments[a].tutorCharge \notin {None, Some(0)}]_vars

====
